---- MODULE Spec2Model ----
(***************************************************************************)
(* create_test_ppt.py: a script that builds a two-slide deck with the      *)
(* presentation library's object model and saves it as sample.pptx next    *)
(* to the script.  One invocation of the script is one process; a process  *)
(* moves through the statements of create_test_presentation one at a time. *)
(* The library's objects are modelled by what the script does with them:   *)
(* a deck is its layouts and its ordered slides, a slide is its layout     *)
(* index and its placeholders' paragraphs, a local variable that holds a   *)
(* library object is a reference (slide number, placeholder idx,           *)
(* paragraph number) into the deck.  The file system holds the output      *)
(* file as a sequence of package parts, written one at a time.             *)
(***************************************************************************)
EXTENDS Naturals, Integers, Sequences, FiniteSets, TLC

VARIABLES
    template,   \* the library's built-in template, as installed
    writable,   \* whether the output file may be opened for writing
    fs,         \* the output files: location -> [exists, cells]
    inv,        \* per process: how it was invoked (cwd, __file__, argv, environ)
    pc,         \* per process: the statement it is at
    prs,        \* per process: the deck (local prs)
    loc,        \* per process: the other local variables
    pos,        \* per process: parts of the package written so far by save
    stdout,     \* per process: lines written to standard output
    stderr,     \* per process: the runtime's failure report (line, exception)
    exit,       \* per process: exit status, -1 while it has none
    written,    \* per process: the locations it has opened for writing
    snapshot,   \* per process: what the file parsed to when its save completed
    finished    \* the processes whose save completed, in that order

vars == <<template, writable, fs, inv, pc, prs, loc, pos, stdout, stderr,
          exit, written, snapshot, finished>>

----------------------------------------------------------------------------
(* Bounds *)

NumProcs == 2

Procs == 1..NumProcs

----------------------------------------------------------------------------
(* Paths: a path is the sequence of its "/" separators and its names.      *)

Sep == "/"

ScriptName == "create_test_ppt.py"

OutputName == "sample.pptx"

IsAbs(path) == Len(path) > 0 /\ path[1] = Sep

\* str.rfind("/") + 1: the length of the prefix that ends at the last "/".
RFindSep(path) ==
    LET at == {i \in 1..Len(path) : path[i] = Sep}
    IN  IF at = {} THEN 0 ELSE CHOOSE i \in at : \A j \in at : j <= i

AllSep(path) == \A i \in 1..Len(path) : path[i] = Sep

RECURSIVE RStripSep(_)
RStripSep(path) ==
    IF Len(path) > 0 /\ path[Len(path)] = Sep
    THEN RStripSep(SubSeq(path, 1, Len(path) - 1))
    ELSE path

\* os.path.dirname
Dirname(path) ==
    LET head == SubSeq(path, 1, RFindSep(path))
    IN  IF Len(head) > 0 /\ ~AllSep(head) THEN RStripSep(head) ELSE head

\* os.path.join(a, b)
Join(a, b) ==
    IF IsAbs(b) THEN b
    ELSE IF Len(a) = 0 \/ a[Len(a)] = Sep THEN a \o b
    ELSE a \o <<Sep>> \o b

\* The file a path names for a process whose working directory is cwd.
Resolve(cwd, path) == IF IsAbs(path) THEN path ELSE Join(cwd, path)

\* A variant of OutputPath: the path is taken from the working directory.
OutputPath_FromCwd(i) == Join(i.cwd, <<OutputName>>)

\* Line 31: the path depends on __file__ alone.
OutputPath(i) == Join(Dirname(i.file), <<OutputName>>)

ScriptLocs == { <<Sep, ScriptName>>, <<Sep, "repo", Sep, ScriptName>> }

FileLocs == { <<Sep, OutputName>>, <<Sep, "repo", Sep, OutputName>> }

Cwds == { <<Sep>>, <<Sep, "repo">> }

\* The values __file__ takes: absolute, or relative to the working directory.
FileArgs == ScriptLocs \cup { <<ScriptName>>, <<"repo", Sep, ScriptName>> }

Argvs == { <<>>, <<"other.pptx">> }

Environs == { "", "OUTPUT=other.pptx" }

\* Every way of starting the script: __file__ names the script from cwd.
Invocations ==
    { i \in [cwd : Cwds, file : FileArgs, argv : Argvs, environ : Environs] :
        Resolve(i.cwd, i.file) \in ScriptLocs }

\* The plain invocation: by absolute path, no arguments.
DefaultInvocations ==
    { i \in Invocations : /\ i.cwd = <<Sep>>
                          /\ i.file = <<Sep, "repo", Sep, ScriptName>>
                          /\ i.argv = <<>>
                          /\ i.environ = "" }

NoInvocation == [cwd |-> <<>>, file |-> <<>>, argv |-> <<>>, environ |-> ""]

----------------------------------------------------------------------------
(* The deck.  A layout maps placeholder idx to placeholder type; a slide   *)
(* keeps, for every placeholder of its layout, the paragraphs of its text  *)
(* frame.                                                                  *)

TitleLayout == (0 :> "title" @@ 1 :> "subtitle")

ContentLayout == (0 :> "title" @@ 1 :> "body")

DefaultTemplate == [loadable |-> TRUE, layouts |-> <<TitleLayout, ContentLayout>>]

\* The default template, and templates that make a library call fail.
Templates ==
    { DefaultTemplate,
      [loadable |-> FALSE, layouts |-> <<>>],
      [loadable |-> TRUE, layouts |-> <<>>],
      [loadable |-> TRUE, layouts |-> <<TitleLayout>>],
      [loadable |-> TRUE, layouts |-> <<(0 :> "title"), ContentLayout>>],
      [loadable |-> TRUE, layouts |-> <<(1 :> "subtitle"), ContentLayout>>],
      [loadable |-> TRUE, layouts |-> <<TitleLayout, (0 :> "title")>>],
      [loadable |-> TRUE, layouts |-> <<TitleLayout, (1 :> "body")>>] }

NoDeck == [layouts |-> <<>>, slides |-> <<>>]

NoSlide == [layout |-> -1, ph |-> <<>>]

\* A reference to a placeholder (or its text frame); s = 0 is None / unbound.
NoRef == [s |-> 0, i |-> 0]

\* A reference to a paragraph.
NoPara == [s |-> 0, i |-> 0, k |-> 0]

NoLocals ==
    [title_slide_layout |-> -1, slide |-> 0, title |-> NoRef, subtitle |-> NoRef,
     bullet_slide_layout |-> -1, body |-> NoRef, tf |-> NoRef, p |-> NoPara,
     output_path |-> <<>>]

\* The script's string literals (U+2022 stands for the bullet character).
TitleText == "Test Presentation"

SubtitleText == "Created by file2ai"

ContentTitleText == "Sample Content"

BodyText == "This is a test slide"

Bullet1Text == "U+2022 Bullet point 1"

Bullet2Text == "U+2022 Bullet point 2"

SuccessPrefix == "Created test presentation at: "

\* prs.slide_layouts[n] exists
HasLayout(deck, n) == n + 1 \in 1..Len(deck.layouts)

\* prs.slides.add_slide(layout n): a new last slide, every placeholder of the
\* layout cloned with one empty paragraph.
AddSlide(deck, n) ==
    [deck EXCEPT !.slides =
        Append(@, [layout |-> n,
                   ph |-> [i \in DOMAIN deck.layouts[n + 1] |-> <<"">>]])]

\* slide.shapes.title: the placeholder with idx 0, or None.
TitleOf(deck, s) == IF 0 \in DOMAIN deck.slides[s].ph THEN [s |-> s, i |-> 0] ELSE NoRef

\* slide.placeholders[i] exists
HasPlaceholder(deck, s, i) == i \in DOMAIN deck.slides[s].ph

\* A variant of SetText: the text becomes a further paragraph.
SetText_Appends(deck, ref, t) == [deck EXCEPT !.slides[ref.s].ph[ref.i] = Append(@, t)]

\* shape.text = t / text_frame.text = t: the text replaces every paragraph.
SetText(deck, ref, t) == [deck EXCEPT !.slides[ref.s].ph[ref.i] = <<t>>]

\* text_frame.add_paragraph(): a new, empty last paragraph.
AddParagraph(deck, ref) == [deck EXCEPT !.slides[ref.s].ph[ref.i] = Append(@, "")]

\* The paragraph add_paragraph returned.
LastParagraph(deck, ref) ==
    [s |-> ref.s, i |-> ref.i, k |-> Len(deck.slides[ref.s].ph[ref.i])]

\* paragraph.text = t
SetParagraphText(deck, para, t) ==
    [deck EXCEPT !.slides[para.s].ph[para.i][para.k] = t]

----------------------------------------------------------------------------
(* The package: save writes one part for the presentation, one per slide   *)
(* and, on closing, the directory of the parts.                            *)

Part(kind, n, slide) == [kind |-> kind, n |-> n, slide |-> slide]

Serialize(deck) ==
    <<Part("presentation", Len(deck.slides), NoSlide)>>
    \o [k \in 1..Len(deck.slides) |-> Part("slide", k, deck.slides[k])]
    \o <<Part("directory", Len(deck.slides) + 1, NoSlide)>>

\* What a file holds at one part's place: the part and the process that
\* wrote it (0: it was there before any run); a hole holds nothing.
Cell(by, part) == [by |-> by, data |-> part]

Hole == Cell(-1, Part("hole", 0, NoSlide))

NoFile == [exists |-> FALSE, cells |-> <<>>]

NoParse == [ok |-> FALSE, slides |-> <<>>]

\* Reading a package back: it is readable only when its directory is its
\* last part and lists a presentation part followed by that many slides.
Parse(f) ==
    LET c == f.cells
        n == Len(c)
    IN  IF /\ f.exists
           /\ n >= 2
           /\ c[n].data.kind = "directory" /\ c[n].data.n = n - 1
           /\ c[1].data.kind = "presentation" /\ c[1].data.n = n - 2
           /\ \A k \in 2..(n - 1) : c[k].data.kind = "slide" /\ c[k].data.n = k - 1
        THEN [ok |-> TRUE, slides |-> [k \in 1..(n - 2) |-> c[k + 1].data.slide]]
        ELSE NoParse

\* A sample.pptx left by something else: one slide, other text.
OldDeck ==
    [layouts |-> <<TitleLayout>>,
     slides |-> <<[layout |-> 0, ph |-> (0 :> <<"Old">> @@ 1 :> <<"Old">>)]>>]

OldFile ==
    [exists |-> TRUE,
     cells |-> [k \in 1..Len(Serialize(OldDeck)) |-> Cell(0, Serialize(OldDeck)[k])]]

\* Writing cell c at place k of a file: the places skipped become holes.
WriteAt(f, k, c) ==
    [exists |-> TRUE,
     cells |-> [j \in 1..(IF k > Len(f.cells) THEN k ELSE Len(f.cells)) |->
                  IF j = k THEN c
                  ELSE IF j <= Len(f.cells) THEN f.cells[j] ELSE Hole]]

\* The file the process's output_path names.
Target(p) == Resolve(inv[p].cwd, loc[p].output_path)

----------------------------------------------------------------------------
(* Initial state: no process has started.                                  *)

InitProcs ==
    /\ inv = [p \in Procs |-> NoInvocation]
    /\ pc = [p \in Procs |-> "idle"]
    /\ prs = [p \in Procs |-> NoDeck]
    /\ loc = [p \in Procs |-> NoLocals]
    /\ pos = [p \in Procs |-> 0]
    /\ stdout = [p \in Procs |-> <<>>]
    /\ stderr = [p \in Procs |-> <<>>]
    /\ exit = [p \in Procs |-> -1]
    /\ written = [p \in Procs |-> {}]
    /\ snapshot = [p \in Procs |-> NoParse]
    /\ finished = <<>>

Init ==
    /\ template \in Templates
    /\ writable \in BOOLEAN
    /\ fs \in [FileLocs -> {NoFile, OldFile}]
    /\ InitProcs

----------------------------------------------------------------------------
(* Steps.  A statement either completes and the process moves to the next  *)
(* one, or it raises: nothing in the script catches an exception, so the   *)
(* process ends there with the runtime's failure status and report, and    *)
(* its memory is gone.                                                     *)

Local == UNCHANGED <<template, writable, fs, inv, pos, stdout, written, snapshot, finished>>

Goto(p, next) ==
    /\ pc' = [pc EXCEPT ![p] = next]
    /\ UNCHANGED <<stderr, exit>>

Raise(p, line, exc) ==
    /\ pc' = [pc EXCEPT ![p] = "failed"]
    /\ prs' = [prs EXCEPT ![p] = NoDeck]
    /\ loc' = [loc EXCEPT ![p] = NoLocals]
    /\ stderr' = [stderr EXCEPT ![p] = <<[line |-> line, exc |-> exc]>>]
    /\ exit' = [exit EXCEPT ![p] = 1]

Terminated(p) == pc[p] \in {"done", "failed"}

\* python create_test_ppt.py: line 35 holds, line 36 calls the function.
Start(p, invs) ==
    /\ pc[p] = "idle"
    /\ \E i \in invs : inv' = [inv EXCEPT ![p] = i]
    /\ pc' = [pc EXCEPT ![p] = "L7"]
    /\ UNCHANGED <<template, writable, fs, prs, loc, pos, stdout, stderr, exit,
                   written, snapshot, finished>>

\* A variant of L7: the deck is loaded from the output file when it exists.
L7_LoadsOutput(p) ==
    /\ pc[p] = "L7"
    /\ IF template.loadable
       THEN /\ prs' = [prs EXCEPT ![p] =
                         [layouts |-> template.layouts,
                          slides |-> Parse(fs[Resolve(inv[p].cwd, OutputPath(inv[p]))]).slides]]
            /\ UNCHANGED loc
            /\ Goto(p, "L10")
       ELSE Raise(p, "L7", "PackageNotFoundError")
    /\ Local

\* A variant of L7: the output file is created before the deck is built.
L7_TouchesOutput(p) ==
    /\ pc[p] = "L7"
    /\ fs' = [fs EXCEPT ![Resolve(inv[p].cwd, OutputPath(inv[p]))] =
                 [exists |-> TRUE, cells |-> <<>>]]
    /\ IF template.loadable
       THEN /\ prs' = [prs EXCEPT ![p] = [layouts |-> template.layouts, slides |-> <<>>]]
            /\ UNCHANGED loc
            /\ Goto(p, "L10")
       ELSE Raise(p, "L7", "PackageNotFoundError")
    /\ UNCHANGED <<template, writable, inv, pos, stdout, written, snapshot, finished>>

\* prs = Presentation()
L7(p) ==
    /\ pc[p] = "L7"
    /\ IF template.loadable
       THEN /\ prs' = [prs EXCEPT ![p] = [layouts |-> template.layouts, slides |-> <<>>]]
            /\ UNCHANGED loc
            /\ Goto(p, "L10")
       ELSE Raise(p, "L7", "PackageNotFoundError")
    /\ Local

\* title_slide_layout = prs.slide_layouts[0]
L10(p) ==
    /\ pc[p] = "L10"
    /\ IF HasLayout(prs[p], 0)
       THEN /\ loc' = [loc EXCEPT ![p].title_slide_layout = 0]
            /\ UNCHANGED prs
            /\ Goto(p, "L11")
       ELSE Raise(p, "L10", "IndexError")
    /\ Local

\* slide = prs.slides.add_slide(title_slide_layout)
L11(p) ==
    /\ pc[p] = "L11"
    /\ prs' = [prs EXCEPT ![p] = AddSlide(@, loc[p].title_slide_layout)]
    /\ loc' = [loc EXCEPT ![p].slide = Len(prs'[p].slides)]
    /\ Goto(p, "L12")
    /\ Local

\* title = slide.shapes.title
L12(p) ==
    /\ pc[p] = "L12"
    /\ loc' = [loc EXCEPT ![p].title = TitleOf(prs[p], loc[p].slide)]
    /\ UNCHANGED prs
    /\ Goto(p, "L13")
    /\ Local

\* subtitle = slide.placeholders[1]
L13(p) ==
    /\ pc[p] = "L13"
    /\ IF HasPlaceholder(prs[p], loc[p].slide, 1)
       THEN /\ loc' = [loc EXCEPT ![p].subtitle = [s |-> loc[p].slide, i |-> 1]]
            /\ UNCHANGED prs
            /\ Goto(p, "L14")
       ELSE Raise(p, "L13", "KeyError")
    /\ Local

\* title.text = "Test Presentation"
L14(p) ==
    /\ pc[p] = "L14"
    /\ IF loc[p].title # NoRef
       THEN /\ prs' = [prs EXCEPT ![p] = SetText(@, loc[p].title, TitleText)]
            /\ UNCHANGED loc
            /\ Goto(p, "L15")
       ELSE Raise(p, "L14", "AttributeError")
    /\ Local

\* subtitle.text = "Created by file2ai"
L15(p) ==
    /\ pc[p] = "L15"
    /\ prs' = [prs EXCEPT ![p] = SetText(@, loc[p].subtitle, SubtitleText)]
    /\ UNCHANGED loc
    /\ Goto(p, "L18")
    /\ Local

\* A variant of L18: the second slide takes the first layout again.
L18_FirstLayout(p) ==
    /\ pc[p] = "L18"
    /\ IF HasLayout(prs[p], 0)
       THEN /\ loc' = [loc EXCEPT ![p].bullet_slide_layout = 0]
            /\ UNCHANGED prs
            /\ Goto(p, "L19")
       ELSE Raise(p, "L18", "IndexError")
    /\ Local

\* bullet_slide_layout = prs.slide_layouts[1]
L18(p) ==
    /\ pc[p] = "L18"
    /\ IF HasLayout(prs[p], 1)
       THEN /\ loc' = [loc EXCEPT ![p].bullet_slide_layout = 1]
            /\ UNCHANGED prs
            /\ Goto(p, "L19")
       ELSE Raise(p, "L18", "IndexError")
    /\ Local

\* slide = prs.slides.add_slide(bullet_slide_layout)
L19(p) ==
    /\ pc[p] = "L19"
    /\ prs' = [prs EXCEPT ![p] = AddSlide(@, loc[p].bullet_slide_layout)]
    /\ loc' = [loc EXCEPT ![p].slide = Len(prs'[p].slides)]
    /\ Goto(p, "L20")
    /\ Local

\* A variant of L20: title still names slide 1's title.
L20_KeepsTitle(p) ==
    /\ pc[p] = "L20"
    /\ UNCHANGED <<prs, loc>>
    /\ Goto(p, "L21")
    /\ Local

\* title = slide.shapes.title
L20(p) ==
    /\ pc[p] = "L20"
    /\ loc' = [loc EXCEPT ![p].title = TitleOf(prs[p], loc[p].slide)]
    /\ UNCHANGED prs
    /\ Goto(p, "L21")
    /\ Local

\* body = slide.placeholders[1]
L21(p) ==
    /\ pc[p] = "L21"
    /\ IF HasPlaceholder(prs[p], loc[p].slide, 1)
       THEN /\ loc' = [loc EXCEPT ![p].body = [s |-> loc[p].slide, i |-> 1]]
            /\ UNCHANGED prs
            /\ Goto(p, "L22")
       ELSE Raise(p, "L21", "KeyError")
    /\ Local

\* title.text = "Sample Content"
L22(p) ==
    /\ pc[p] = "L22"
    /\ IF loc[p].title # NoRef
       THEN /\ prs' = [prs EXCEPT ![p] = SetText(@, loc[p].title, ContentTitleText)]
            /\ UNCHANGED loc
            /\ Goto(p, "L23")
       ELSE Raise(p, "L22", "AttributeError")
    /\ Local

\* tf = body.text_frame
L23(p) ==
    /\ pc[p] = "L23"
    /\ loc' = [loc EXCEPT ![p].tf = loc[p].body]
    /\ UNCHANGED prs
    /\ Goto(p, "L24")
    /\ Local

\* tf.text = "This is a test slide"
L24(p) ==
    /\ pc[p] = "L24"
    /\ prs' = [prs EXCEPT ![p] = SetText(@, loc[p].tf, BodyText)]
    /\ UNCHANGED loc
    /\ Goto(p, "L25")
    /\ Local

\* p = tf.add_paragraph()
L25(p) ==
    /\ pc[p] = "L25"
    /\ prs' = [prs EXCEPT ![p] = AddParagraph(@, loc[p].tf)]
    /\ loc' = [loc EXCEPT ![p].p = LastParagraph(prs'[p], loc[p].tf)]
    /\ Goto(p, "L26")
    /\ Local

\* p.text = "U+2022 Bullet point 1"
L26(p) ==
    /\ pc[p] = "L26"
    /\ prs' = [prs EXCEPT ![p] = SetParagraphText(@, loc[p].p, Bullet1Text)]
    /\ UNCHANGED loc
    /\ Goto(p, "L27")
    /\ Local

\* p = tf.add_paragraph()
L27(p) ==
    /\ pc[p] = "L27"
    /\ prs' = [prs EXCEPT ![p] = AddParagraph(@, loc[p].tf)]
    /\ loc' = [loc EXCEPT ![p].p = LastParagraph(prs'[p], loc[p].tf)]
    /\ Goto(p, "L28")
    /\ Local

\* p.text = "U+2022 Bullet point 2"
L28(p) ==
    /\ pc[p] = "L28"
    /\ prs' = [prs EXCEPT ![p] = SetParagraphText(@, loc[p].p, Bullet2Text)]
    /\ UNCHANGED loc
    /\ Goto(p, "L31")
    /\ Local

\* output_path = os.path.join(os.path.dirname(__file__), "sample.pptx")
L31(p) ==
    /\ pc[p] = "L31"
    /\ loc' = [loc EXCEPT ![p].output_path = OutputPath(inv[p])]
    /\ UNCHANGED prs
    /\ Goto(p, "L32")
    /\ Local

\* A variant of SaveOpen: the confirmation is printed before the save.
SaveOpen_PrintsFirst(p) ==
    /\ pc[p] = "L32"
    /\ stdout' = [stdout EXCEPT ![p] = Append(@, <<SuccessPrefix>> \o loc[p].output_path)]
    /\ IF writable
       THEN /\ fs' = [fs EXCEPT ![Target(p)] = [exists |-> TRUE, cells |-> <<>>]]
            /\ written' = [written EXCEPT ![p] = @ \cup {Target(p)}]
            /\ pos' = [pos EXCEPT ![p] = 0]
            /\ UNCHANGED <<prs, loc>>
            /\ Goto(p, "L32w")
       ELSE /\ Raise(p, "L32", "PermissionError")
            /\ UNCHANGED <<fs, written, pos>>
    /\ UNCHANGED <<template, writable, inv, snapshot, finished>>

\* A variant of SaveOpen: a refused open is caught and the run goes on.
SaveOpen_Swallows(p) ==
    /\ pc[p] = "L32"
    /\ IF writable
       THEN /\ fs' = [fs EXCEPT ![Target(p)] = [exists |-> TRUE, cells |-> <<>>]]
            /\ written' = [written EXCEPT ![p] = @ \cup {Target(p)}]
            /\ pos' = [pos EXCEPT ![p] = 0]
            /\ Goto(p, "L32w")
       ELSE /\ Goto(p, "L33")
            /\ UNCHANGED <<fs, written, pos>>
    /\ UNCHANGED <<template, writable, inv, prs, loc, stdout, snapshot, finished>>

\* prs.save(output_path), first: the file is opened for writing, which
\* creates it or empties it, or is refused.
SaveOpen(p) ==
    /\ pc[p] = "L32"
    /\ IF writable
       THEN /\ fs' = [fs EXCEPT ![Target(p)] = [exists |-> TRUE, cells |-> <<>>]]
            /\ written' = [written EXCEPT ![p] = @ \cup {Target(p)}]
            /\ pos' = [pos EXCEPT ![p] = 0]
            /\ UNCHANGED <<prs, loc>>
            /\ Goto(p, "L32w")
       ELSE /\ Raise(p, "L32", "PermissionError")
            /\ UNCHANGED <<fs, written, pos>>
    /\ UNCHANGED <<template, writable, inv, stdout, snapshot, finished>>

\* A variant of SaveWrite: the part is written at the end of the file.
SaveWrite_Appends(p) ==
    /\ pc[p] = "L32w"
    /\ pos[p] + 1 < Len(Serialize(prs[p]))
    /\ \E ok \in BOOLEAN :
        IF ok
        THEN /\ fs' = [fs EXCEPT ![Target(p)] =
                         WriteAt(@, Len(@.cells) + 1,
                                 Cell(p, Serialize(prs[p])[pos[p] + 1]))]
             /\ pos' = [pos EXCEPT ![p] = @ + 1]
             /\ UNCHANGED <<prs, loc>>
             /\ Goto(p, "L32w")
        ELSE /\ Raise(p, "L32", "OSError")
             /\ UNCHANGED <<fs, pos>>
    /\ UNCHANGED <<template, writable, inv, stdout, written, snapshot, finished>>

\* A variant of SaveWrite: a failed write removes the file.
SaveWrite_CleansUp(p) ==
    /\ pc[p] = "L32w"
    /\ pos[p] + 1 < Len(Serialize(prs[p]))
    /\ \E ok \in BOOLEAN :
        IF ok
        THEN /\ fs' = [fs EXCEPT ![Target(p)] =
                         WriteAt(@, pos[p] + 1, Cell(p, Serialize(prs[p])[pos[p] + 1]))]
             /\ pos' = [pos EXCEPT ![p] = @ + 1]
             /\ UNCHANGED <<prs, loc>>
             /\ Goto(p, "L32w")
        ELSE /\ Raise(p, "L32", "OSError")
             /\ fs' = [fs EXCEPT ![Target(p)] = NoFile]
             /\ UNCHANGED pos
    /\ UNCHANGED <<template, writable, inv, stdout, written, snapshot, finished>>

\* prs.save, then: the next part is written at the writer's own position,
\* or the write fails (disk full, I/O error) and the file stays as it is.
SaveWrite(p) ==
    /\ pc[p] = "L32w"
    /\ pos[p] + 1 < Len(Serialize(prs[p]))
    /\ \E ok \in BOOLEAN :
        IF ok
        THEN /\ fs' = [fs EXCEPT ![Target(p)] =
                         WriteAt(@, pos[p] + 1, Cell(p, Serialize(prs[p])[pos[p] + 1]))]
             /\ pos' = [pos EXCEPT ![p] = @ + 1]
             /\ UNCHANGED <<prs, loc>>
             /\ Goto(p, "L32w")
        ELSE /\ Raise(p, "L32", "OSError")
             /\ UNCHANGED <<fs, pos>>
    /\ UNCHANGED <<template, writable, inv, stdout, written, snapshot, finished>>

\* prs.save, last: closing the package writes its directory.
SaveClose(p) ==
    /\ pc[p] = "L32w"
    /\ pos[p] + 1 = Len(Serialize(prs[p]))
    /\ \E ok \in BOOLEAN :
        IF ok
        THEN /\ fs' = [fs EXCEPT ![Target(p)] =
                         WriteAt(@, pos[p] + 1, Cell(p, Serialize(prs[p])[pos[p] + 1]))]
             /\ pos' = [pos EXCEPT ![p] = @ + 1]
             /\ snapshot' = [snapshot EXCEPT ![p] = Parse(fs'[Target(p)])]
             /\ finished' = Append(finished, p)
             /\ UNCHANGED <<prs, loc>>
             /\ Goto(p, "L33")
        ELSE /\ Raise(p, "L32", "OSError")
             /\ UNCHANGED <<fs, pos, snapshot, finished>>
    /\ UNCHANGED <<template, writable, inv, stdout, written>>

\* print(f"Created test presentation at: {output_path}")
L33(p) ==
    /\ pc[p] = "L33"
    /\ stdout' = [stdout EXCEPT ![p] = Append(@, <<SuccessPrefix>> \o loc[p].output_path)]
    /\ Goto(p, "L36")
    /\ UNCHANGED <<template, writable, fs, inv, prs, loc, pos, written, snapshot, finished>>

\* The function returns to line 36 and the script ends: status 0.
L36(p) ==
    /\ pc[p] = "L36"
    /\ pc' = [pc EXCEPT ![p] = "done"]
    /\ exit' = [exit EXCEPT ![p] = 0]
    /\ prs' = [prs EXCEPT ![p] = NoDeck]
    /\ loc' = [loc EXCEPT ![p] = NoLocals]
    /\ UNCHANGED <<template, writable, fs, inv, pos, stdout, stderr, written,
                   snapshot, finished>>

\* One statement of create_test_presentation.
Step(p) ==
    \/ L7(p) \/ L10(p) \/ L11(p) \/ L12(p) \/ L13(p) \/ L14(p) \/ L15(p)
    \/ L18(p) \/ L19(p) \/ L20(p) \/ L21(p) \/ L22(p) \/ L23(p) \/ L24(p)
    \/ L25(p) \/ L26(p) \/ L27(p) \/ L28(p) \/ L31(p)
    \/ SaveOpen(p) \/ SaveWrite(p) \/ SaveClose(p) \/ L33(p) \/ L36(p)

\* Runs in succession: a run starts when the runs before it have ended.
StartInTurn(p) ==
    /\ \A q \in Procs : q < p => Terminated(q)
    /\ Start(p, DefaultInvocations)

\* The two runs whose paths are compared.
PathRuns == {1, 2}

\* Runs in succession, started from any directory in any of the ways.
StartInTurnAnyhow(p) ==
    /\ p \in PathRuns
    /\ \A q \in Procs : q < p => Terminated(q)
    /\ Start(p, Invocations)

\* Concurrent runs: a run starts at any time.
StartAnytime(p) == Start(p, DefaultInvocations)

Next == \E p \in Procs : StartInTurn(p) \/ Step(p)

Spec == Init /\ [][Next]_vars

NextPath == \E p \in Procs : StartInTurnAnyhow(p) \/ Step(p)

InitPath ==
    /\ template = DefaultTemplate
    /\ writable \in BOOLEAN
    /\ fs \in [FileLocs -> {NoFile, OldFile}]
    /\ InitProcs

SpecPath == InitPath /\ [][NextPath]_vars

NextConc == \E p \in Procs : StartAnytime(p) \/ Step(p)

InitConc ==
    /\ template = DefaultTemplate
    /\ writable = TRUE
    /\ fs \in [FileLocs -> {NoFile, OldFile}]
    /\ InitProcs

SpecConc == InitConc /\ [][NextConc]_vars

----------------------------------------------------------------------------
(* What the claims speak of.                                               *)

\* The statements after slide 1's texts are set, up to the return.
AfterSlide1 ==
    {"L18", "L19", "L20", "L21", "L22", "L23", "L24", "L25", "L26", "L27",
     "L28", "L31", "L32", "L32w", "L33", "L36"}

\* The statements before save.
BeforeSave ==
    {"L7", "L10", "L11", "L12", "L13", "L14", "L15", "L18", "L19", "L20",
     "L21", "L22", "L23", "L24", "L25", "L26", "L27", "L28", "L31"}

\* From the moment the deck is serialized to the return.
FromSave == {"L32", "L32w", "L33", "L36"}

\* The directory that holds the script, joined with the file's name.
ScriptDirFile(p) ==
    Join(Dirname(Resolve(inv[p].cwd, inv[p].file)), <<OutputName>>)

SaveCompleted(p) == \E k \in 1..Len(finished) : finished[k] = p

\* The file holds only what p wrote, and is no readable package.
PartialBy(p, f) ==
    /\ f.exists
    /\ ~Parse(f).ok
    /\ \A k \in 1..Len(f.cells) : f.cells[k].by = p

\* No run after p has opened a file.
NoLaterWriter(p) == \A q \in Procs : q > p => written[q] = {}

----------------------------------------------------------------------------
\* C1: whenever a run serializes its deck, and in the file as it stands when
\* the save completes, the deck holds exactly two slides, the first added
\* with layout 0 and the second with layout 1; no run ever holds a third.
C1_TwoSlidesInOrder ==
    \A p \in Procs :
        /\ Len(prs[p].slides) <= 2
        /\ pc[p] \in FromSave =>
              /\ Len(prs[p].slides) = 2
              /\ prs[p].slides[1].layout = 0
              /\ prs[p].slides[2].layout = 1
        /\ SaveCompleted(p) =>
              /\ snapshot[p].ok
              /\ Len(snapshot[p].slides) = 2
              /\ snapshot[p].slides[1].layout = 0
              /\ snapshot[p].slides[2].layout = 1

C1_Witness ==
    \E p \in Procs : pc[p] = "done" /\ exit[p] = 0 /\ Len(snapshot[p].slides) = 2

\* C2: in the deck a run saves and in the file its save produced, slide 2's
\* title is "Sample Content" and its body holds exactly the three paragraphs
\* "This is a test slide", "U+2022 Bullet point 1", "U+2022 Bullet point 2"
\* in this order.
C2_Slide2Content ==
    \A p \in Procs :
        /\ pc[p] \in FromSave =>
              /\ prs[p].slides[2].ph[0] = <<ContentTitleText>>
              /\ prs[p].slides[2].ph[1] = <<BodyText, Bullet1Text, Bullet2Text>>
        /\ exit[p] = 0 =>
              /\ snapshot[p].ok
              /\ snapshot[p].slides[2].ph[0] = <<ContentTitleText>>
              /\ snapshot[p].slides[2].ph[1] = <<BodyText, Bullet1Text, Bullet2Text>>

C2_Witness ==
    \E p \in Procs :
        /\ exit[p] = 0
        /\ Len(snapshot[p].slides[2].ph[1]) = 3
        /\ snapshot[p].slides[2].ph[1][3] = Bullet2Text

\* C3: from the statement after slide 1's texts are set until the return,
\* and in the file the save produced, slide 1's title is "Test Presentation"
\* and its subtitle "Created by file2ai": the statements that build slide 2
\* with the reused names slide and title change no text of slide 1.
C3_Slide1Content ==
    \A p \in Procs :
        /\ pc[p] \in AfterSlide1 =>
              /\ prs[p].slides[1].ph[0] = <<TitleText>>
              /\ prs[p].slides[1].ph[1] = <<SubtitleText>>
        /\ exit[p] = 0 =>
              /\ snapshot[p].slides[1].ph[0] = <<TitleText>>
              /\ snapshot[p].slides[1].ph[1] = <<SubtitleText>>

C3_Witness ==
    \E p \in Procs :
        /\ pc[p] = "L33"
        /\ loc[p].title = [s |-> 2, i |-> 0]
        /\ prs[p].slides[2].ph[0] = <<ContentTitleText>>
        /\ prs[p].slides[1].ph[0] = <<TitleText>>

C5_SuccessLine ==
    \A p \in Procs :
        /\ Len(stdout[p]) <= 1
        /\ stdout[p] # <<>> =>
              /\ SaveCompleted(p)
              /\ Head(stdout[p][1]) = SuccessPrefix
              /\ Resolve(inv[p].cwd, Tail(stdout[p][1])) \in written[p]
        /\ exit[p] = 1 => stdout[p] = <<>>
        /\ exit[p] = 0 => Len(stdout[p]) = 1

C5_Witness ==
    /\ \E p \in Procs : exit[p] = 0 /\ Len(stdout[p]) = 1
    /\ \E p \in Procs : exit[p] = 1 /\ stderr[p][1].line = "L32" /\ written[p] # {}

\* C6 (state part): a run has status 1 exactly when it stopped at a failing
\* statement and status 0 exactly when it returned; a failed run reports one
\* exception, has run no statement after the failing one (nothing opened
\* unless save failed, nothing printed), and no run gets past the statement
\* its environment makes fail.
C6_FailFastState ==
    \A p \in Procs :
        /\ (pc[p] = "failed") <=> (exit[p] = 1)
        /\ (pc[p] = "done") <=> (exit[p] = 0)
        /\ (pc[p] = "failed") <=> (stderr[p] # <<>>)
        /\ pc[p] = "failed" =>
              /\ Len(stderr[p]) = 1
              /\ stdout[p] = <<>>
              /\ ~SaveCompleted(p)
              /\ stderr[p][1].line # "L32" => written[p] = {}
        /\ pc[p] = "done" => SaveCompleted(p) /\ Len(stdout[p]) = 1
        /\ ~template.loadable => pc[p] \in {"idle", "L7", "failed"}
        /\ ~HasLayout(template, 0) => pc[p] \in {"idle", "L7", "L10", "failed"}
        /\ ~HasLayout(template, 1) => pc[p] \notin AfterSlide1 \ {"L18"}
        /\ ~writable => pc[p] \notin {"L32w", "L33", "L36", "done"}

\* C6 (step part): a failed run takes no further step.
C6_FailFastStep ==
    \A p \in Procs :
        pc[p] = "failed" =>
            /\ pc'[p] = "failed"
            /\ exit'[p] = exit[p]
            /\ stdout'[p] = stdout[p]
            /\ stderr'[p] = stderr[p]
            /\ written'[p] = written[p]
            /\ pos'[p] = pos[p]

\* C6: a failure in any statement is not caught, translated or retried: the
\* run stops at the first failing statement, runs no later one and ends with
\* status 1; a run without failure ends with status 0.
C6_FailFast == []C6_FailFastState /\ [][C6_FailFastStep]_vars

C6_Witness ==
    \E p \in Procs :
        /\ pc[p] = "failed"
        /\ stderr[p] = <<[line |-> "L21", exc |-> "KeyError"]>>
        /\ exit[p] = 1
        /\ HasLayout(template, 1)

\* C7 (both conjuncts of the claim): a run starts from a deck without
\* slides, whatever the output file holds; the files any two runs produced
\* read the same; and after two successful runs in succession the file reads
\* as it did after the first of them, the second run having printed its one
\* line like the first and nothing else.
C7_OverwriteIdempotent ==
    /\ \A p \in Procs : pc[p] = "L10" => prs[p].slides = <<>>
    /\ \A p, q \in Procs :
          (SaveCompleted(p) /\ SaveCompleted(q)) => snapshot[p] = snapshot[q]
    /\ \A p, q \in Procs :
          (p < q /\ exit[p] = 0 /\ exit[q] = 0 /\ NoLaterWriter(q))
             => /\ \A l \in written[q] : Parse(fs[l]).ok /\ Parse(fs[l]) = snapshot[p]
                /\ stdout[q] = stdout[p] /\ Len(stdout[q]) = 1

C7_Witness ==
    \E p, q \in Procs :
        /\ p < q /\ exit[p] = 0 /\ exit[q] = 0
        /\ \A l \in written[q] : Parse(fs[l]) = snapshot[p] /\ fs[l].cells[1].by = q

\* Every run has returned.
AllDone == \A p \in Procs : pc[p] = "done"

\* The deck the script builds.
ExpectedSlides ==
    << [layout |-> 0, ph |-> (0 :> <<TitleText>> @@ 1 :> <<SubtitleText>>)],
       [layout |-> 1, ph |-> (0 :> <<ContentTitleText>>
                              @@ 1 :> <<BodyText, Bullet1Text, Bullet2Text>>)] >>

\* C8 as stated: once all concurrent runs have finished successfully, every
\* part of the file was written by the run whose save finished last.
C8_LastWriterWins ==
    AllDone =>
        \A l \in written[finished[Len(finished)]] :
            \A k \in 1..Len(fs[l].cells) :
                fs[l].cells[k].by = finished[Len(finished)]

\* C8 as amended: once all concurrent runs have finished successfully, the
\* file is a complete package that reads as the two-slide deck, every part
\* of it written by one of the runs (not necessarily all by the same run).
C8_CompleteDeck ==
    AllDone =>
        \A p \in Procs : \A l \in written[p] :
            /\ Parse(fs[l]).ok
            /\ Parse(fs[l]).slides = ExpectedSlides
            /\ \A k \in 1..Len(fs[l].cells) : fs[l].cells[k].by \in Procs

C8_Witness ==
    /\ AllDone
    /\ \E l \in FileLocs : \E j, k \in 1..Len(fs[l].cells) :
          /\ fs[l].cells[j].by # fs[l].cells[k].by
          /\ fs[l].cells[j].by \in Procs
          /\ fs[l].cells[k].by \in Procs

\* C9 as stated: no run ends in failure with a partially written file left
\* on disk.
C9_FailsAtomically ==
    \A p \in Procs :
        pc[p] = "failed" => \A l \in written[p] : ~PartialBy(p, fs[l])

\* C9 as amended: a run that has ended either completed (file written, line
\* printed), or failed without having opened the file, or failed in save
\* after opening it, and then the emptied or partly written file stays on
\* disk as the run left it.
C9_Outcomes ==
    \A p \in Procs :
        Terminated(p) =>
            \/ exit[p] = 0 /\ SaveCompleted(p) /\ Len(stdout[p]) = 1
            \/ exit[p] = 1 /\ written[p] = {}
            \/ /\ exit[p] = 1
               /\ stderr[p][1].line = "L32"
               /\ ~SaveCompleted(p)
               /\ Cardinality(written[p]) = 1
               /\ NoLaterWriter(p) => \A l \in written[p] : PartialBy(p, fs[l])

C9_Witness ==
    \E p \in Procs :
        /\ pc[p] = "failed"
        /\ \E l \in written[p] : PartialBy(p, fs[l]) /\ Len(fs[l].cells) >= 2

\* C10 (state part): a run that failed before save has opened no file, and
\* a file no run has opened holds what it held before the runs.
C10_UntouchedState ==
    /\ \A p \in Procs :
          (pc[p] = "failed" /\ stderr[p][1].line \in BeforeSave) => written[p] = {}
    /\ \A l \in FileLocs :
          (\A q \in Procs : l \notin written[q]) => fs[l] \in {NoFile, OldFile}

\* C10 (step part): a statement before save, failing or not, leaves the
\* file system as it is.
C10_UntouchedStep ==
    \A p \in Procs : (pc[p] \in BeforeSave /\ pc'[p] # pc[p]) => fs' = fs

\* C10: save is the only statement that touches the file system: a run that
\* fails at a statement before it leaves an existing sample.pptx with its
\* content and creates no file where none was.
C10_FileSystemUnchanged == []C10_UntouchedState /\ [][C10_UntouchedStep]_vars

C10_Witness ==
    /\ \E p \in Procs :
          /\ pc[p] = "failed" /\ stderr[p][1].line = "L21"
          /\ fs[ScriptDirFile(p)] = OldFile
    /\ \E l \in FileLocs : fs[l] = NoFile

====
